---------------------------- MODULE Spec2Model ----------------------------
(***************************************************************************)
(* Model of lambda_function.py: the Lambda handler that scans a CloudTrail *)
(* log delivered to S3 for operations that expose buckets or objects       *)
(* publicly, and notifies an SNS topic.                                    *)
(*                                                                         *)
(* JSON mappings are functions whose DOMAIN is the set of keys present, so *)
(* that Python's "k in d" is "k \in DOMAIN d" and d[k] on a missing key is *)
(* a KeyError.  A value that may be a scalar or a list is tagged           *)
(* ([scalar |-> v] or [list |-> <<...>>]) so that isinstance(v, list) can  *)
(* be decided.  Strings that are searched for a substring are sequences of *)
(* path segments; other strings are TLA+ strings.                          *)
(***************************************************************************)
EXTENDS Integers, Sequences, FiniteSets, TLC

VARIABLES
    event,          \* the notification handed to lambda_handler (its 'Records')
    pc,             \* position of lambda_handler: start, fetch, scan, done, raised
    error,          \* the exception that ended the invocation, or "none"
    bucket,         \* local of lambda_handler (line 44), Unbound until assigned
    key,            \* local of lambda_handler (line 45), Unbound until assigned
    fetched,        \* the get_object calls made, in order
    trail_json,     \* the parsed log returned by load_json
    idx,            \* position in trail_json['Records'] of the record scanned next
    classified,     \* position of the record whose flags the two locals below hold
    public_read,    \* local of handle_create / handle_change
    public_write,   \* local of handle_create / handle_change
    calls,          \* the sns publish calls made, in order
    published       \* the sns publish calls that succeeded, in order

vars == <<event, pc, error, bucket, key, fetched, trail_json, idx,
          classified, public_read, public_write, calls, published>>

---------------------------------------------------------------------------
(* Bounds of the model *)

MaxOuter == 2       \* outer records in one notification
MaxLog == 3         \* records in a fetched log (small universe)
MaxAclLen == 2      \* values in an x-amz-acl list
MaxGrants == 2      \* grants in a Grant list
MaxResources == 2   \* entries in a record's resources

---------------------------------------------------------------------------
(* Values *)

Unbound == "<unbound>"
EmptyMap == [k \in {} |-> k]
Null == [jsonNull |-> TRUE]

\* a mapping with key k bound to some v in V, or without k
Opt(k, V) == {EmptyMap} \cup {k :> v : v \in V}

RECURSIVE SeqsUpTo(_, _)
SeqsUpTo(S, n) ==
    IF n = 0 THEN {<<>>}
    ELSE LET shorter == SeqsUpTo(S, n - 1)
         IN  shorter \cup {Append(s, x) : s \in {t \in shorter : Len(t) = n - 1}, x \in S}

\* '/global/AllUsers', as path segments
Marker == <<"/global", "/AllUsers">>

AllUsersURI == <<"http:/", "/acs.amazonaws.com", "/groups", "/global", "/AllUsers">>
AuthUsersURI == <<"http:/", "/acs.amazonaws.com", "/groups", "/global", "/AuthenticatedUsers">>

\* Python's "sub in s" on strings
Contains(s, sub) ==
    \E i \in 1..(Len(s) - Len(sub) + 1) : SubSeq(s, i, i + Len(sub) - 1) = sub

\* isinstance(v, list) and the normalisation "if not isinstance(v, list): v = [v]"
IsList(v) == "list" \in DOMAIN v
AsList(v) == IF IsList(v) THEN v.list ELSE <<v.scalar>>

RECURSIVE Join(_, _)
\* Python's sep.join(messages)
Join(messages, sep) ==
    IF Len(messages) = 0 THEN ""
    ELSE IF Len(messages) = 1 THEN messages[1]
    ELSE messages[1] \o sep \o Join(Tail(messages), sep)

\* Python's str.replace on the template, whose placeholders are tokens
Replace(template, placeholder, value) ==
    [i \in DOMAIN template |-> IF template[i] = placeholder THEN value ELSE template[i]]

sns_topic_arn == "arn:aws:sns:us-east-1:111122223333:alerts"
sns_subject == "Public S3 bucket/object alert"
sns_message == <<"User ", "{{user}}", " via ", "{{invoke}}", " call has just ",
                 "{{bucket_or_object}}", " with ", "{{operations}}", " public access">>


---------------------------------------------------------------------------
(* The inputs: notifications and CloudTrail records *)

S3 == "s3.amazonaws.com"
ObjectType == "AWS::S3::Object"
BucketType == "AWS::S3::Bucket"

CreateNames == {"CreateBucket", "PutObject"}
ChangeNames == {"PutBucketAcl", "PutObjectAcl"}

Item(b, k) == [s3 |-> [bucket |-> [name |-> b], object |-> [key |-> k]]]
Items == {Item("trail-bucket", k) : k \in {"log-1.json.gz", "log-2.json.gz"}}
Events == SeqsUpTo(Items, MaxOuter)

AclValues == {"private", "public-read", "public-read-write"}
AclFields ==
    Opt("x-amz-acl", {[scalar |-> v] : v \in AclValues}
                     \cup {[list |-> s] : s \in SeqsUpTo(AclValues, MaxAclLen)})

HeaderValues == {<<"uri=">> \o AllUsersURI, <<"uri=">> \o AuthUsersURI}
GrantHeaderMaps ==
    {a @@ b @@ c @@ d : a \in Opt("x-amz-grant-read", HeaderValues),
                        b \in Opt("x-amz-grant-read-acp", HeaderValues),
                        c \in Opt("x-amz-grant-write", HeaderValues),
                        d \in Opt("x-amz-grant-write-acp", HeaderValues)}
CreateParams ==
    {[bucketName |-> "site"] @@ a @@ h :
        a \in AclFields, h \in Opt("accessControlList", GrantHeaderMaps)}

Permissions == {"READ", "READ_ACP", "WRITE", "WRITE_ACP", "FULL_CONTROL"}
AllUsersGrantee == [Type |-> "Group", URI |-> AllUsersURI]
AuthUsersGrantee == [Type |-> "Group", URI |-> AuthUsersURI]
UserGrantee == [Type |-> "CanonicalUser", ID |-> "79a59df900b949e5"]
Grants ==
    {[Grantee |-> AllUsersGrantee] @@ p : p \in Opt("Permission", Permissions)}
    \cup {[Grantee |-> AuthUsersGrantee] @@ p : p \in Opt("Permission", {"READ", "WRITE"})}
    \cup {[Grantee |-> UserGrantee, Permission |-> p] : p \in {"READ", "WRITE"}}
    \cup {[Permission |-> p] : p \in {"READ", "WRITE"}}
GrantValues ==
    {[scalar |-> g] : g \in Grants} \cup {[list |-> s] : s \in SeqsUpTo(Grants, MaxGrants)}
Policies ==
    {[Owner |-> "79a59df900b949e5"]}
    \cup {[AccessControlList |-> acl] : acl \in Opt("Grant", GrantValues)}
ChangeParams ==
    {[bucketName |-> "site"] @@ p : p \in Opt("AccessControlPolicy", Policies)}

Alice == [type |-> "IAMUser", userName |-> "alice"]
Root == [type |-> "Root"]
UserAgents == {"signin.amazonaws.com", "console.amazonaws.com", "lambda.amazonaws.com",
               "aws-cli/1.16"}
ResourceEntries ==
    {[type |-> ObjectType, ARN |-> "arn:aws:s3:::site/a.txt"],
     [type |-> ObjectType, ARN |-> "arn:aws:s3:::site/b.txt"],
     [type |-> ObjectType, ARNPrefix |-> "arn:aws:s3:::site/"],
     [type |-> BucketType, ARN |-> "arn:aws:s3:::site"],
     [accountId |-> "111122223333", ARN |-> "arn:aws:s3:::site"]}

\* a record with every field the composer reads
Complete == [eventSource |-> S3, userIdentity |-> Alice, userAgent |-> "aws-cli/1.16"]

Envelopes ==
    {[eventSource |-> S3, userIdentity |-> u] @@ a :
        u \in {Alice, Root}, a \in Opt("userAgent", UserAgents)}
    \cup {Complete @@ r : r \in Opt("resources", SeqsUpTo(ResourceEntries, MaxResources))}

ReadGrant == [Grantee |-> AllUsersGrantee, Permission |-> "READ"]
WriteGrant == [Grantee |-> AllUsersGrantee, Permission |-> "WRITE"]
Policy(grant) == [AccessControlPolicy |-> [AccessControlList |-> [Grant |-> grant]]]

\* request parameters with each decision, with and without the bucket name
ComposedCreateParams ==
    {b @@ p : b \in Opt("bucketName", {"site"}),
              p \in {"x-amz-acl" :> [scalar |-> "public-read"],
                     "x-amz-acl" :> [list |-> <<"public-read-write">>],
                     [accessControlList |->
                         ("x-amz-grant-write" :> (<<"uri=">> \o AllUsersURI))],
                     "x-amz-acl" :> [scalar |-> "private"]}}
ComposedChangeParams ==
    {b @@ p : b \in Opt("bucketName", {"site"}),
              p \in {Policy([scalar |-> ReadGrant]),
                     Policy([list |-> <<ReadGrant, WriteGrant>>]),
                     Policy([scalar |-> [Grantee |-> AllUsersGrantee,
                                         Permission |-> "WRITE_ACP"]])}}

\* a creation request that also carries a policy, and a change that carries a canned ACL
MixedParams ==
    {[bucketName |-> "site"] @@ ("x-amz-acl" :> [scalar |-> a]) @@ Policy([scalar |-> g]) :
        a \in AclValues, g \in {ReadGrant, WriteGrant}}

Named(names, envelopes, params) ==
    {[eventName |-> n, requestParameters |-> p] @@ e :
        n \in names, e \in envelopes, p \in params}

DispatchRecords ==
    {[userIdentity |-> Alice, userAgent |-> "aws-cli/1.16"] @@ s @@ n @@ p :
        s \in Opt("eventSource", {S3, "ec2.amazonaws.com"}),
        n \in Opt("eventName", CreateNames \cup ChangeNames \cup {"DeleteBucket"}),
        p \in Opt("requestParameters",
                  {Null, [bucketName |-> "site"] @@ ("x-amz-acl" :> [scalar |-> "public-read"])
                             @@ Policy([scalar |-> WriteGrant])})}

AllRecords ==
    Named(CreateNames, {Complete}, CreateParams)
    \cup Named(ChangeNames, {Complete}, ChangeParams)
    \cup Named(CreateNames \cup ChangeNames, {Complete}, MixedParams)
    \cup Named(CreateNames, Envelopes, ComposedCreateParams)
    \cup Named(ChangeNames, Envelopes, ComposedChangeParams)
    \cup DispatchRecords

\* the records of the multi-record logs
SmallRecords ==
    { [eventName |-> "PutBucketAcl", requestParameters |->
          [bucketName |-> "site"] @@ Policy([scalar |-> ReadGrant])] @@ Complete,
      [eventName |-> "CreateBucket", requestParameters |->
          [bucketName |-> "site"] @@ ("x-amz-acl" :> [scalar |-> "public-read-write"])] @@ Complete,
      [eventName |-> "PutObject", requestParameters |->
          [bucketName |-> "site"] @@ ("x-amz-acl" :> [scalar |-> "private"]),
       resources |-> <<[type |-> ObjectType, ARN |-> "arn:aws:s3:::site/a.txt"]>>] @@ Complete,
      [eventName |-> "PutObjectAcl", requestParameters |->
          [bucketName |-> "site"] @@ Policy([list |-> <<WriteGrant>>]),
       eventSource |-> S3, userIdentity |-> Root, userAgent |-> "console.amazonaws.com"],
      [eventName |-> "PutBucketAcl", requestParameters |-> Null] @@ Complete,
      [eventName |-> "DeleteBucket", requestParameters |-> [bucketName |-> "site"]] @@ Complete,
      [eventName |-> "RunInstances", userIdentity |-> Alice, userAgent |-> "aws-cli/1.16"] }

\* what load_json can return: a log with or without the 'Records' key
Trail(records) == [Records |-> records]
NoRecordsTrail == [Digest |-> "none"]
SmallTrails == {Trail(s) : s \in SeqsUpTo(SmallRecords, MaxLog)} \cup {NoRecordsTrail}
SingleTrails == {Trail(<<r>>) : r \in AllRecords} \cup {NoRecordsTrail}

---------------------------------------------------------------------------
(* The classifier.  An evaluation that raises yields [exc |-> <exception>];  *)
(* one that completes yields exc = "none" and its value.                     *)

Raised(e) == [exc |-> e]
Flags(r, w) == [exc |-> "none", public_read |-> r, public_write |-> w]

\* InitialFlags without the reset: the flags left by the previous record
CarriedFlags == Flags(public_read, public_write)

\* public_read = False; public_write = False
InitialFlags == Flags(FALSE, FALSE)

RECURSIVE ScanAcl(_, _, _)
\* for acl_header in acl_headers
ScanAcl(acl_headers, i, flags) ==
    IF i > Len(acl_headers) THEN flags
    ELSE LET acl_header == acl_headers[i]
             r == flags.public_read
                  \/ acl_header = "public-read" \/ acl_header = "public-read-write"
             w == flags.public_write \/ acl_header = "public-read-write"
         IN  ScanAcl(acl_headers, i + 1, Flags(r, w))

\* CannedAcl without the normalisation of a single value
CannedAclListOnly(params, flags) ==
    IF "x-amz-acl" \in DOMAIN params /\ IsList(params["x-amz-acl"])
    THEN ScanAcl(params["x-amz-acl"].list, 1, flags)
    ELSE flags

\* if 'x-amz-acl' in record['requestParameters']: ...
CannedAcl(params, flags) ==
    IF "x-amz-acl" \in DOMAIN params
    THEN ScanAcl(AsList(params["x-amz-acl"]), 1, flags)
    ELSE flags

\* 'h' in accessControlList and '/global/AllUsers' in accessControlList['h']
HeaderGrants(acl, header) == header \in DOMAIN acl /\ Contains(acl[header], Marker)

\* GrantHeaders as an alternative to the canned ACL: read only when there is none
GrantHeadersExclusive(params, flags) ==
    IF "accessControlList" \in DOMAIN params /\ "x-amz-acl" \notin DOMAIN params
    THEN LET acl == params.accessControlList
         IN  Flags(flags.public_read \/ HeaderGrants(acl, "x-amz-grant-read")
                                     \/ HeaderGrants(acl, "x-amz-grant-read-acp"),
                   flags.public_write \/ HeaderGrants(acl, "x-amz-grant-write")
                                      \/ HeaderGrants(acl, "x-amz-grant-write-acp"))
    ELSE flags

\* if 'accessControlList' in record['requestParameters']: ...
GrantHeaders(params, flags) ==
    IF "accessControlList" \in DOMAIN params
    THEN LET acl == params.accessControlList
         IN  Flags(flags.public_read \/ HeaderGrants(acl, "x-amz-grant-read")
                                     \/ HeaderGrants(acl, "x-amz-grant-read-acp"),
                   flags.public_write \/ HeaderGrants(acl, "x-amz-grant-write")
                                      \/ HeaderGrants(acl, "x-amz-grant-write-acp"))
    ELSE flags

\* the flags of handle_create when it reaches line 96
CreateFlags(record) ==
    LET params == record.requestParameters
    IN  IF params = Null THEN Raised("TypeError")
        ELSE GrantHeaders(params, CannedAcl(params, InitialFlags))

RECURSIVE ScanGrantsAnyURI(_, _, _)
\* ScanGrants without the test of the URI for the AllUsers marker
ScanGrantsAnyURI(grant_list, i, flags) ==
    IF i > Len(grant_list) THEN flags
    ELSE LET grantee == grant_list[i]
         IN  IF "Grantee" \in DOMAIN grantee /\ "URI" \in DOMAIN grantee.Grantee
             THEN IF "Permission" \notin DOMAIN grantee THEN Raised("KeyError")
                  ELSE IF grantee.Permission = "READ" \/ grantee.Permission = "READ_ACP"
                  THEN ScanGrantsAnyURI(grant_list, i + 1, Flags(TRUE, flags.public_write))
                  ELSE IF grantee.Permission = "WRITE" \/ grantee.Permission = "WRITE_ACP"
                  THEN ScanGrantsAnyURI(grant_list, i + 1, Flags(flags.public_read, TRUE))
                  ELSE ScanGrantsAnyURI(grant_list, i + 1, flags)
             ELSE ScanGrantsAnyURI(grant_list, i + 1, flags)

RECURSIVE ScanGrants(_, _, _)
\* for grantee in grant_list
ScanGrants(grant_list, i, flags) ==
    IF i > Len(grant_list) THEN flags
    ELSE LET grantee == grant_list[i]
         IN  IF /\ "Grantee" \in DOMAIN grantee
                /\ "URI" \in DOMAIN grantee.Grantee
                /\ Contains(grantee.Grantee.URI, Marker)
             THEN IF "Permission" \notin DOMAIN grantee THEN Raised("KeyError")
                  ELSE IF grantee.Permission = "READ" \/ grantee.Permission = "READ_ACP"
                  THEN ScanGrants(grant_list, i + 1, Flags(TRUE, flags.public_write))
                  ELSE IF grantee.Permission = "WRITE" \/ grantee.Permission = "WRITE_ACP"
                  THEN ScanGrants(grant_list, i + 1, Flags(flags.public_read, TRUE))
                  ELSE ScanGrants(grant_list, i + 1, flags)
             ELSE ScanGrants(grant_list, i + 1, flags)

\* the flags of handle_change when it reaches line 117
ChangeFlags(record) ==
    LET params == record.requestParameters
    IN  IF params = Null THEN Raised("TypeError")
        ELSE IF "AccessControlPolicy" \notin DOMAIN params THEN InitialFlags
        ELSE IF "AccessControlList" \notin DOMAIN params.AccessControlPolicy
        THEN Raised("KeyError")
        ELSE IF "Grant" \notin DOMAIN params.AccessControlPolicy.AccessControlList
        THEN Raised("KeyError")
        ELSE ScanGrants(AsList(params.AccessControlPolicy.AccessControlList.Grant),
                        1, InitialFlags)

---------------------------------------------------------------------------
(* The composer *)

None == [none |-> TRUE]
Value(v) == [exc |-> "none", value |-> v]

RECURSIVE LastObject(_, _)
\* FirstObject without the return inside the loop: the last object-level entry
LastObject(resources, i) ==
    IF i > Len(resources) THEN Value(None)
    ELSE LET resource == resources[i]
             later == LastObject(resources, i + 1)
         IN  IF "type" \notin DOMAIN resource THEN Raised("KeyError")
             ELSE IF resource.type = ObjectType
             THEN IF "ARN" \notin DOMAIN resource THEN Raised("KeyError")
                  ELSE IF later.exc = "none" /\ later.value = None
                  THEN Value([arn |-> resource.ARN])
                  ELSE later
             ELSE later

RECURSIVE FirstObject(_, _)
\* for resource in record['resources']
FirstObject(resources, i) ==
    IF i > Len(resources) THEN Value(None)
    ELSE LET resource == resources[i]
         IN  IF "type" \notin DOMAIN resource THEN Raised("KeyError")
             ELSE IF resource.type = ObjectType
             THEN IF "ARN" \in DOMAIN resource THEN Value([arn |-> resource.ARN])
                  ELSE Raised("KeyError")
             ELSE FirstObject(resources, i + 1)

get_object_arn(record) ==
    IF "resources" \in DOMAIN record THEN FirstObject(record.resources, 1)
    ELSE Value(None)

get_invoke_form(record) ==
    IF "userAgent" \notin DOMAIN record THEN Raised("KeyError")
    ELSE IF record.userAgent = "signin.amazonaws.com"
            \/ record.userAgent = "console.amazonaws.com"
    THEN Value("Console")
    ELSE IF record.userAgent = "lambda.amazonaws.com" THEN Value("Lambda")
    ELSE Value("API")

\* get_public_access with the two appends in the other order
get_public_access_write_first(write, read) ==
    LET m1 == IF write THEN <<"WRITE">> ELSE <<>>
        m2 == IF read THEN Append(m1, "READ") ELSE m1
    IN  Join(m2, " and ")

get_public_access(write, read) ==
    LET m1 == IF read THEN <<"READ">> ELSE <<>>
        m2 == IF write THEN Append(m1, "WRITE") ELSE m1
    IN  Join(m2, " and ")

get_resource_access(event_name, bucket_name, object_arn) ==
    LET m1 == IF event_name = "CreateBucket" \/ event_name = "PutObject"
              THEN <<"created">> ELSE <<"changed">>
        m2 == IF object_arn # None
              THEN m1 \o <<object_arn.arn, "at bucket", bucket_name>>
              ELSE m1 \o <<"bucket", bucket_name>>
    IN  Join(m2, " ")

\* publish_alert up to the publish call: the arguments of sns_client.publish,
\* with the two strings substituted for {{operations}} and {{bucket_or_object}}
Alert(record, event_name, write, read) ==
    IF "userIdentity" \notin DOMAIN record THEN Raised("KeyError")
    ELSE IF "userName" \notin DOMAIN record.userIdentity THEN Raised("KeyError")
    ELSE LET user_name == record.userIdentity.userName
             invoke_form == get_invoke_form(record)
             object_arn == get_object_arn(record)
         IN  IF invoke_form.exc # "none" THEN invoke_form
             ELSE IF "bucketName" \notin DOMAIN record.requestParameters
             THEN Raised("KeyError")
             ELSE IF object_arn.exc # "none" THEN object_arn
             ELSE LET bucket_name == record.requestParameters.bucketName
                      operations == get_public_access(write, read)
                      bucket_or_object ==
                          get_resource_access(event_name, bucket_name, object_arn.value)
                      pub_message ==
                          Replace(Replace(Replace(Replace(sns_message,
                              "{{user}}", user_name),
                              "{{invoke}}", invoke_form.value),
                              "{{operations}}", operations),
                              "{{bucket_or_object}}", bucket_or_object)
                  IN  [exc |-> "none",
                       TopicArn |-> sns_topic_arn,
                       Subject |-> sns_subject,
                       Message |-> Join(pub_message, ""),
                       operations |-> operations,
                       bucket_or_object |-> bucket_or_object]

---------------------------------------------------------------------------
(* lambda_handler *)

Init ==
    /\ event \in Events
    /\ pc = "start"
    /\ error = "none"
    /\ bucket = Unbound
    /\ key = Unbound
    /\ fetched = <<>>
    /\ trail_json = NoRecordsTrail
    /\ idx = 0
    /\ classified = 0
    /\ public_read = FALSE
    /\ public_write = FALSE
    /\ calls = <<>>
    /\ published = <<>>

RECURSIVE LoopItemsFirst(_, _, _)
\* LoopItems leaving the loop after the first item
LoopItemsFirst(items, i, bound) ==
    IF i > Len(items) \/ i > 1 THEN bound
    ELSE LoopItemsFirst(items, i + 1, [bucket |-> items[i].s3.bucket.name,
                                       key |-> items[i].s3.object.key])

RECURSIVE LoopItems(_, _, _)
\* for items in event['Records']: bucket = ...; key = ...
LoopItems(items, i, bound) ==
    IF i > Len(items) THEN bound
    ELSE LoopItems(items, i + 1, [bucket |-> items[i].s3.bucket.name,
                                  key |-> items[i].s3.object.key])

\* an exception leaves the handler: the invocation ends
Raise(e) ==
    /\ pc' = "raised"
    /\ error' = e

\* lines 43-47: the loop over the notification's records, then the print that
\* reads bucket and key
ReadNotification ==
    /\ pc = "start"
    /\ LET bound == LoopItems(event, 1, [bucket |-> Unbound, key |-> Unbound])
       IN  /\ bucket' = bound.bucket
           /\ key' = bound.key
           /\ IF bound.bucket = Unbound
              THEN Raise("UnboundLocalError")
              ELSE pc' = "fetch" /\ error' = error
    /\ UNCHANGED <<event, fetched, trail_json, idx, classified, public_read,
                   public_write, calls, published>>

\* lines 49-50: get_object and load_json succeed and return one of `trails`
GetObject(trails) ==
    /\ pc = "fetch"
    /\ fetched' = Append(fetched, [Bucket |-> bucket, Key |-> key])
    /\ \E trail \in trails : trail_json' = trail
    /\ idx' = 1
    /\ pc' = "scan"
    /\ UNCHANGED <<event, error, bucket, key, classified, public_read, public_write,
                   calls, published>>

\* lines 49-50: get_object or load_json raises
GetObjectFails ==
    /\ pc = "fetch"
    /\ fetched' = Append(fetched, [Bucket |-> bucket, Key |-> key])
    /\ Raise("LoaderError")
    /\ UNCHANGED <<event, bucket, key, trail_json, idx, classified, public_read,
                   public_write, calls, published>>

\* sns_publish inside a try/except that records the failure and goes on
sns_publish_swallow(call, ok) ==
    /\ calls' = Append(calls, call)
    /\ idx' = idx + 1
    /\ pc' = pc
    /\ IF ok
       THEN published' = Append(published, call) /\ error' = error
       ELSE published' = published /\ error' = "PublishError"

\* sns_client.publish(...): the call is made; it returns or raises
sns_publish(call, ok) ==
    /\ calls' = Append(calls, call)
    /\ IF ok
       THEN /\ published' = Append(published, call)
            /\ idx' = idx + 1
            /\ UNCHANGED <<pc, error>>
       ELSE /\ Raise("PublishError")
            /\ UNCHANGED <<published, idx>>

\* lines 121-142; a call is recorded with the position `at` of its record
publish_alert(record, event_name, write, read) ==
    LET alert == Alert(record, event_name, write, read)
    IN  IF alert.exc # "none"
        THEN Raise(alert.exc) /\ UNCHANGED <<idx, calls, published>>
        ELSE \E ok \in BOOLEAN :
                sns_publish([at |-> idx] @@ [k \in DOMAIN alert \ {"exc"} |-> alert[k]], ok)

\* lines 96-97 and 117-118, after the flags are computed
Decide(record, event_name, flags) ==
    IF flags.exc # "none"
    THEN /\ Raise(flags.exc)
         /\ UNCHANGED <<idx, classified, public_read, public_write, calls, published>>
    ELSE /\ classified' = idx
         /\ public_read' = flags.public_read
         /\ public_write' = flags.public_write
         /\ IF flags.public_read = TRUE \/ flags.public_write = TRUE
            THEN publish_alert(record, event_name, flags.public_write, flags.public_read)
            ELSE idx' = idx + 1 /\ UNCHANGED <<pc, error, calls, published>>

handle_create(record, event_name) == Decide(record, event_name, CreateFlags(record))

handle_change(record, event_name) == Decide(record, event_name, ChangeFlags(record))

\* lines 54-59: where the loop body sends a record
Route(record) ==
    IF "eventSource" \notin DOMAIN record THEN "KeyError"
    ELSE IF ~(record.eventSource = S3 /\ "requestParameters" \in DOMAIN record) THEN "skip"
    ELSE IF "eventName" \notin DOMAIN record THEN "KeyError"
    ELSE IF record.eventName = "CreateBucket" \/ record.eventName = "PutObject"
    THEN "create"
    ELSE IF record.eventName = "PutBucketAcl" \/ record.eventName = "PutObjectAcl"
    THEN "change"
    ELSE "skip"

Scanning ==
    /\ pc = "scan"
    /\ "Records" \in DOMAIN trail_json
    /\ idx <= Len(trail_json.Records)

\* the loop body on a record that is not handled
SkipRecord ==
    /\ Scanning
    /\ Route(trail_json.Records[idx]) = "skip"
    /\ idx' = idx + 1
    /\ UNCHANGED <<event, pc, error, bucket, key, fetched, trail_json, classified,
                   public_read, public_write, calls, published>>

\* the loop body on a record without eventSource or eventName
RouteRaises ==
    /\ Scanning
    /\ Route(trail_json.Records[idx]) = "KeyError"
    /\ Raise("KeyError")
    /\ UNCHANGED <<event, bucket, key, fetched, trail_json, idx, classified,
                   public_read, public_write, calls, published>>

\* the loop body on CreateBucket and PutObject
CreateRecord ==
    /\ Scanning
    /\ LET record == trail_json.Records[idx]
       IN  /\ Route(record) = "create"
           /\ handle_create(record, record.eventName)
    /\ UNCHANGED <<event, bucket, key, fetched, trail_json>>

\* the loop body on PutBucketAcl and PutObjectAcl
ChangeRecord ==
    /\ Scanning
    /\ LET record == trail_json.Records[idx]
       IN  /\ Route(record) = "change"
           /\ handle_change(record, record.eventName)
    /\ UNCHANGED <<event, bucket, key, fetched, trail_json>>

\* lines 52-53: no 'Records' in the log, or the loop is over
EndScan ==
    /\ pc = "scan"
    /\ ~("Records" \in DOMAIN trail_json /\ idx <= Len(trail_json.Records))
    /\ pc' = "done"
    /\ UNCHANGED <<event, error, bucket, key, fetched, trail_json, idx, classified,
                   public_read, public_write, calls, published>>

FetchSmall == GetObject(SmallTrails)
FetchSingle == GetObject(SingleTrails)

\* one invocation on a log of up to MaxLog records
Next ==
    \/ ReadNotification
    \/ FetchSmall
    \/ GetObjectFails
    \/ SkipRecord
    \/ RouteRaises
    \/ CreateRecord
    \/ ChangeRecord
    \/ EndScan

Spec == Init /\ [][Next]_vars

\* one invocation on a log of one record, drawn from all the record shapes
InitClassify == Init /\ Len(event) <= 1

NextClassify ==
    \/ ReadNotification
    \/ FetchSingle
    \/ GetObjectFails
    \/ SkipRecord
    \/ RouteRaises
    \/ CreateRecord
    \/ ChangeRecord
    \/ EndScan

SpecClassify == InitClassify /\ [][NextClassify]_vars

---------------------------------------------------------------------------
(* What the specification says of a record, stated over the record's       *)
(* fields.  An absent field is absent evidence.                            *)

Records == IF "Records" \in DOMAIN trail_json THEN trail_json.Records ELSE <<>>
Rec(i) == Records[i]

\* the string names the AllUsers group
MentionsAllUsers(s) ==
    \E i \in 1..(Len(s) - 1) : s[i] = "/global" /\ s[i + 1] = "/AllUsers"

HasParams(record) ==
    "requestParameters" \in DOMAIN record /\ record.requestParameters # Null

\* the canned-ACL values of a record, a single value counting as a list of one
CannedValues(record) ==
    IF HasParams(record) /\ "x-amz-acl" \in DOMAIN record.requestParameters
    THEN LET v == record.requestParameters["x-amz-acl"]
         IN  IF "list" \in DOMAIN v THEN {v.list[i] : i \in DOMAIN v.list} ELSE {v.scalar}
    ELSE {}

\* the grant header is present and names AllUsers
HeaderPublic(record, header) ==
    /\ HasParams(record)
    /\ "accessControlList" \in DOMAIN record.requestParameters
    /\ header \in DOMAIN record.requestParameters.accessControlList
    /\ MentionsAllUsers(record.requestParameters.accessControlList[header])

RuleARead(record) ==
    \/ CannedValues(record) \cap {"public-read", "public-read-write"} # {}
    \/ HeaderPublic(record, "x-amz-grant-read")
    \/ HeaderPublic(record, "x-amz-grant-read-acp")

RuleAWrite(record) ==
    \/ "public-read-write" \in CannedValues(record)
    \/ HeaderPublic(record, "x-amz-grant-write")
    \/ HeaderPublic(record, "x-amz-grant-write-acp")

\* the grants of a record, a single grant counting as a list of one
GrantsOf(record) ==
    IF /\ HasParams(record)
       /\ "AccessControlPolicy" \in DOMAIN record.requestParameters
       /\ "AccessControlList" \in DOMAIN record.requestParameters.AccessControlPolicy
       /\ "Grant" \in DOMAIN record.requestParameters.AccessControlPolicy.AccessControlList
    THEN LET v == record.requestParameters.AccessControlPolicy.AccessControlList.Grant
         IN  IF "list" \in DOMAIN v THEN {v.list[i] : i \in DOMAIN v.list} ELSE {v.scalar}
    ELSE {}

\* the grant gives one of `permissions` to AllUsers
GrantsPublicly(grant, permissions) ==
    /\ "Grantee" \in DOMAIN grant
    /\ "URI" \in DOMAIN grant.Grantee
    /\ MentionsAllUsers(grant.Grantee.URI)
    /\ "Permission" \in DOMAIN grant
    /\ grant.Permission \in permissions

RuleBRead(record) == \E g \in GrantsOf(record) : GrantsPublicly(g, {"READ", "READ_ACP"})
RuleBWrite(record) == \E g \in GrantsOf(record) : GrantsPublicly(g, {"WRITE", "WRITE_ACP"})

IsCreate(record) == "eventName" \in DOMAIN record /\ record.eventName \in CreateNames
IsChange(record) == "eventName" \in DOMAIN record /\ record.eventName \in ChangeNames

\* the decision of the rule that applies to the record, classified on its own
OwnRead(record) ==
    (IsCreate(record) /\ RuleARead(record)) \/ (IsChange(record) /\ RuleBRead(record))
OwnWrite(record) ==
    (IsCreate(record) /\ RuleAWrite(record)) \/ (IsChange(record) /\ RuleBWrite(record))

\* the record is one the dispatch loop hands to the classifier
Routed(record) ==
    /\ "eventSource" \in DOMAIN record
    /\ record.eventSource = S3
    /\ HasParams(record)
    /\ (IsCreate(record) \/ IsChange(record))

\* a classification has completed; the flags held are those of LastRec
Decided == classified > 0
LastRec == Rec(classified)

CallsAt(i) == {c \in DOMAIN calls : calls[c].at = i}

\* the loop body has run, to its end or to an exception, on record i
Scanned(i) ==
    /\ i \in DOMAIN Records
    /\ \/ i < idx
       \/ i = idx /\ pc = "raised"

---------------------------------------------------------------------------
(* Rule A and Rule B *)

\* C1: whenever handle_create has computed its flags for a record, public_read
\* is true iff a canned-ACL value is public-read or public-read-write or the
\* grant-read or grant-read-acp header names AllUsers, and public_write is true
\* iff a canned-ACL value is public-read-write or the grant-write or
\* grant-write-acp header names AllUsers: both encodings count in every record.
C1_RuleA ==
    (Decided /\ IsCreate(LastRec)) =>
        /\ public_read = RuleARead(LastRec)
        /\ public_write = RuleAWrite(LastRec)

\* C1 witness: a private canned ACL beside a grant-read-acp header naming
\* AllUsers has been classified as public read only.
C1_Witness ==
    /\ (Decided /\ IsCreate(LastRec))
    /\ CannedValues(LastRec) = {"private"}
    /\ HeaderPublic(LastRec, "x-amz-grant-read-acp")
    /\ ~HeaderPublic(LastRec, "x-amz-grant-read")
    /\ public_read /\ ~public_write

\* C2: whenever handle_change has computed its flags for a record, public_read
\* is true iff some grant gives READ or READ_ACP to a grantee whose URI names
\* AllUsers, and public_write is true iff some grant gives WRITE or WRITE_ACP
\* to such a grantee; other grants change nothing.
C2_RuleB ==
    (Decided /\ IsChange(LastRec)) =>
        /\ public_read = RuleBRead(LastRec)
        /\ public_write = RuleBWrite(LastRec)

\* C2 witness: a list of two grants, READ to AllUsers and WRITE to another
\* group, has been classified as public read only.
C2_Witness ==
    /\ (Decided /\ IsChange(LastRec))
    /\ GrantsOf(LastRec) =
           {ReadGrant, [Grantee |-> AuthUsersGrantee, Permission |-> "WRITE"]}
    /\ public_read /\ ~public_write

SinglePublicRead(record) ==
    /\ IsCreate(record)
    /\ HasParams(record)
    /\ "x-amz-acl" \in DOMAIN record.requestParameters
    /\ record.requestParameters["x-amz-acl"] = [scalar |-> "public-read"]

\* C5 as stated: a creation record whose canned ACL is the single string
\* public-read is classified (true, false) whatever else it carries.
C5_ReadOnlyWhateverElse ==
    (Decided /\ SinglePublicRead(LastRec)) => public_read /\ ~public_write

\* C5 amended: a creation record whose canned ACL is the single string
\* public-read is classified public_read = true, and public_write = true
\* exactly when its grant-write or grant-write-acp header names AllUsers.
C5_ReadAndHeaderWrite ==
    (Decided /\ SinglePublicRead(LastRec)) =>
        /\ public_read
        /\ public_write = (\/ HeaderPublic(LastRec, "x-amz-grant-write")
                           \/ HeaderPublic(LastRec, "x-amz-grant-write-acp"))

\* C5 witness: the single string public-read with no grant header naming
\* AllUsers for writing has been classified (true, false).
C5_Witness ==
    /\ (Decided /\ SinglePublicRead(LastRec))
    /\ "accessControlList" \in DOMAIN LastRec.requestParameters
    /\ ~HeaderPublic(LastRec, "x-amz-grant-write")
    /\ ~HeaderPublic(LastRec, "x-amz-grant-write-acp")
    /\ public_read /\ ~public_write

---------------------------------------------------------------------------
(* Missing fields and dispatch *)

\* the loop body hands the record to handle_create or handle_change
HandedOver(record) ==
    /\ "eventSource" \in DOMAIN record
    /\ record.eventSource = S3
    /\ "requestParameters" \in DOMAIN record
    /\ (IsCreate(record) \/ IsChange(record))

\* the invocation ended in the classifier or the composer, on a missing field
ShapeError ==
    /\ pc = "raised"
    /\ error \in {"KeyError", "TypeError"}
    /\ idx \in DOMAIN Records
    /\ HandedOver(Rec(idx))

\* C3 as stated: the classifier and the composer never raise on a record handed
\* to them, whatever field it lacks, so the scan goes on to the next record.
C3_NeverRaisesOnShape == ~ShapeError

\* C4 as stated: for every record the loop body has run on, sns publish was
\* called once if the record is from S3, has request parameters, has one of the
\* four event names and its rule's decision has a flag true, and was not called
\* otherwise.
C4_PublishIffPositive ==
    \A i \in DOMAIN Records :
        Scanned(i) =>
            Cardinality(CallsAt(i)) =
                (IF Routed(Rec(i)) /\ (OwnRead(Rec(i)) \/ OwnWrite(Rec(i))) THEN 1 ELSE 0)

\* The dispatch rule on the records that no missing field stopped: publish is
\* called once for a routed record with a positive decision, and not otherwise.
DispatchUnlessShapeError ==
    \A i \in DOMAIN Records :
        (Scanned(i) /\ ~(i = idx /\ ShapeError)) =>
            Cardinality(CallsAt(i)) =
                (IF Routed(Rec(i)) /\ (OwnRead(Rec(i)) \/ OwnWrite(Rec(i))) THEN 1 ELSE 0)

---------------------------------------------------------------------------
(* Publisher failure *)

IsPrefix(s, t) == Len(s) <= Len(t) /\ SubSeq(t, 1, Len(s)) = s

\* the state once a publish call has raised: the failed call is the last one
\* made, it was for the record at idx, and every earlier call is published
AbortedAtPublish ==
    error = "PublishError" =>
        /\ pc = "raised"
        /\ calls # <<>>
        /\ calls[Len(calls)].at = idx
        /\ published = SubSeq(calls, 1, Len(calls) - 1)
        /\ \A c \in DOMAIN published : published[c].at < idx

\* C6: once the publish call for record N has raised, nothing changes any more
\* (no later record is evaluated, no later alert is published, the failed call
\* is not made again), and the alerts published before stay published.
C6_PublishFailureAborts ==
    /\ []AbortedAtPublish
    /\ [][/\ error = "PublishError" => UNCHANGED vars
          /\ IsPrefix(published, published')]_vars

\* C6 witness: the publish call for the second record raised after the alert
\* for the first was published, and a third record that would alert follows.
C6_Witness ==
    /\ error = "PublishError"
    /\ idx = 2
    /\ Len(published) = 1
    /\ Len(Records) = 3
    /\ Routed(Rec(3)) /\ OwnRead(Rec(3))

---------------------------------------------------------------------------
(* The alert *)

OperationsOf(read, write) ==
    IF read /\ write THEN "READ and WRITE" ELSE IF read THEN "READ" ELSE "WRITE"

\* C7: the operations string of every publish call is READ, WRITE or
\* READ and WRITE: it names exactly the true flags of the record's decision,
\* read first, is never empty, and is the string the message carries between
\* "with" and "public access".
C7_Operations ==
    \A c \in DOMAIN calls :
        LET record == Rec(calls[c].at)
        IN  /\ OwnRead(record) \/ OwnWrite(record)
            /\ calls[c].operations = OperationsOf(OwnRead(record), OwnWrite(record))
            /\ calls[c].operations \in {"READ", "WRITE", "READ and WRITE"}
            /\ \E invoke \in {"Console", "Lambda", "API"} :
                  calls[c].Message =
                      "User " \o record.userIdentity.userName \o " via " \o invoke
                      \o " call has just " \o calls[c].bucket_or_object
                      \o " with " \o calls[c].operations \o " public access"

\* C7 witness: an alert for both flags has been published as READ and WRITE.
C7_Witness ==
    \E c \in DOMAIN published :
        /\ published[c].operations = "READ and WRITE"
        /\ OwnRead(Rec(published[c].at)) /\ OwnWrite(Rec(published[c].at))

\* the positions of the object-level entries of a record's resources
ObjectEntries(record) ==
    IF "resources" \in DOMAIN record
    THEN {i \in DOMAIN record.resources :
            "type" \in DOMAIN record.resources[i] /\ record.resources[i].type = ObjectType}
    ELSE {}

Verb(record) == IF IsCreate(record) THEN "created" ELSE "changed"

DescriptionOf(record) ==
    LET entries == ObjectEntries(record)
        first == CHOOSE i \in entries : \A j \in entries : i <= j
    IN  IF entries = {}
        THEN Verb(record) \o " bucket " \o record.requestParameters.bucketName
        ELSE Verb(record) \o " " \o record.resources[first].ARN
             \o " at bucket " \o record.requestParameters.bucketName

\* C8: the resource description of every publish call starts with created for
\* CreateBucket and PutObject and with changed for PutBucketAcl and
\* PutObjectAcl, then gives the identifier of the first object-level entry of
\* the record's resources, "at bucket" and the bucket name, or, when there is no
\* resources or no object-level entry, "bucket" and the bucket name.
C8_Description ==
    \A c \in DOMAIN calls :
        calls[c].bucket_or_object = DescriptionOf(Rec(calls[c].at))

\* C8 witness: an alert has been published for a record with two object-level
\* entries of different identifiers, described by the first.
C8_Witness ==
    \E c \in DOMAIN published :
        LET record == Rec(published[c].at)
        IN  /\ ObjectEntries(record) = {1, 2}
            /\ record.resources[1].ARN # record.resources[2].ARN
            /\ published[c].bucket_or_object =
                   Verb(record) \o " " \o record.resources[1].ARN \o " at bucket site"

---------------------------------------------------------------------------
(* One fetch, one scan *)

Ended == pc \in {"done", "raised"}

LastItem == event[Len(event)]

\* the calls are for records in scan order, none for a record not yet reached
CallsInScanOrder ==
    /\ \A c \in DOMAIN calls : calls[c].at \in DOMAIN Records /\ calls[c].at <= idx
    /\ \A c, d \in DOMAIN calls : c < d => calls[c].at < calls[d].at

---------------------------------------------------------------------------
(* The decision depends on the record alone *)

\* the flags held are those the latest classified record gets on its own
FreshDecision ==
    classified > 0 =>
        /\ public_read = OwnRead(LastRec)
        /\ public_write = OwnWrite(LastRec)

\* every call is for a record whose own decision is positive
CallsOnOwnDecision ==
    \A c \in DOMAIN calls : OwnRead(Rec(calls[c].at)) \/ OwnWrite(Rec(calls[c].at))

\* C10: the decision for the record at any position of a log is the decision
\* that record gets on its own, whatever records precede it (so equal records
\* get equal decisions and an earlier positive record causes no later alert),
\* and scanning never changes the fetched records.
C10_DecisionOfRecordAlone ==
    /\ [](FreshDecision /\ CallsOnOwnDecision)
    /\ [][pc = "scan" => trail_json' = trail_json]_vars

\* C10 witness: after a first record that was published as public, a second
\* record that is not public has been classified (false, false) and the scan
\* went on without a second call.
C10_Witness ==
    /\ classified = 2
    /\ idx = 3
    /\ OwnRead(Rec(1))
    /\ ~OwnRead(Rec(2)) /\ ~OwnWrite(Rec(2))
    /\ ~public_read /\ ~public_write
    /\ Len(calls) = 1 /\ calls[1].at = 1

=============================================================================
